---- MODULE Spec2Model ----
(***************************************************************************)
(* Model of generate_ec_data.ipynb: the metric functions (compute_cox,     *)
(* compute_nijsse), the spatial reducer (weighted_mean) and the pipeline   *)
(* driver that regresses out volcanic forcing per model and assembles      *)
(* ec_data.csv and ts_rv.csv.                                              *)
(*                                                                         *)
(* Numbers are exact rationals [num, den] with den > 0; not-a-number is    *)
(* the value with den = 0.  Python indices are 0-based: element k of a     *)
(* Python array s is s[k + 1] here.                                        *)
(***************************************************************************)
EXTENDS Integers, Sequences, FiniteSets

VARIABLES
    \* pipeline driver (notebook globals)
    df, model_keys, t, i, ecs_vals, original_cox, rv_cox, original_nijsse,
    rv_nijsse, df_rv, fit_log, ec_data, ts_rv, ts_rows, pc,
    \* one call of compute_cox or compute_nijsse (its locals)
    fn_x, fn_length, fn_i, psi_vals, slopes, fn_result, fn_pc,
    \* one call of weighted_mean (its locals)
    da, weights, wm, wm_pc

driver_vars == <<df, model_keys, t, i, ecs_vals, original_cox, rv_cox,
                 original_nijsse, rv_nijsse, df_rv, fit_log, ec_data, ts_rv,
                 ts_rows, pc>>

fn_vars == <<fn_x, fn_length, fn_i, psi_vals, slopes, fn_result, fn_pc>>

wm_vars == <<da, weights, wm, wm_pc>>

vars == <<driver_vars, fn_vars, wm_vars>>

----------------------------------------------------------------------------
(* Bounds of the model *)

\* number of model columns of ts.csv
NumModels == 5

\* points of an input series of a metric function beyond its windows
MaxExtra == 4

\* points along every axis of a gridded field
GridSize == 2

\* largest value of a cell of a gridded field
MaxValue == 2

----------------------------------------------------------------------------
(* Numbers *)

NaN == [num |-> 0, den |-> 0]

Num(v) == [num |-> v, den |-> 1]

IsNaN(v) == v.den = 0

\* a[lo:hi] of Python, for 0 <= lo
Slice(s, lo, hi) ==
    LET top == IF hi < Len(s) THEN hi ELSE Len(s)
    IN  IF lo >= top THEN <<>> ELSE SubSeq(s, lo + 1, top)

\* a[lo:] of Python
SliceFrom(s, lo) == Slice(s, lo, Len(s))

RECURSIVE SumRange(_, _, _)
SumRange(f, lo, hi) ==
    IF lo > hi THEN 0
    ELSE IF lo = hi THEN f[lo]
    ELSE LET mid == (lo + hi) \div 2
         IN  SumRange(f, lo, mid) + SumRange(f, mid + 1, hi)

----------------------------------------------------------------------------
(* Program constants *)

\* ts[:1001] / ts[1001:]: the past1000 window
PastLen == 1001

\* ts[151:] / ts[:151]: the window regressed against crowley_2000_forcing
CrowleyOffset == 151

\* the years of the forcing profiles: i = 850 ... while i <= 1850
FirstYear == 850

LastYear == 1850

ForcingLen == LastYear - FirstYear + 1

\* rows of data/ts.csv in the recorded run: len(df['FGOALS-gl'][150:]) is 1000
TsRows == 1150

\* window of compute_cox
CoxWindow == 55

\* default block length of compute_nijsse
NijsseLength == 10

----------------------------------------------------------------------------
(* Inputs: the forcing profiles, data/ts.csv and data/ecs.csv *)

\* a profile that is 0 except for an eruption of -1 W/m^2 every `period` years
Profile(len, period, phase) ==
    [k \in 1..len |-> IF (k + phase) % period = 0 THEN -1 ELSE 0]

gao_2008_forcing == Profile(ForcingLen, 7, 0)

crowley_2008_forcing == Profile(ForcingLen, 5, 1)

evolv2k_forcing == Profile(ForcingLen, 11, 2)

\* data/crowley_2000.txt is aligned with ts[151:] of the recorded run
crowley_2000_forcing == Profile(TsRows - CrowleyOffset, 9, 3)

forcings ==
    << "gao", "gao", "crowley_08", "crowley_00",
       "evolv2k", "crowley_08", "gao", "evolv2k",
       "crowley_08", "gao", "evolv2k", "gao",
       "evolv2k", "evolv2k", "evolv2k", "crowley_08",
       "evolv2k", "evolv2k" >>

\* model columns of ts.csv, in the order the forcings list is written for
NamePool ==
    << "CCSM4", "GISS-E2-R", "HadCM3", "FGOALS-gl", "MPI-ESM-P",
       "IPSL-CM5A-LR", "MIROC-ES2L" >>

RefKeys == SubSeq(NamePool, 1, NumModels)

PoolIndex(m) == CHOOSE k \in 1..Len(NamePool) : NamePool[k] = m

\* the rows of ts.csv the run may be given
TsLens == {TsRows - 1, TsRows}

\* annual temperature of the model with pool index mi in row k; the second
\* model's historical period is shorter (its last rows are empty)
Temp(mi, k, rows) ==
    IF mi = 2 /\ k > rows - 4 THEN NaN
    ELSE Num(((k * mi) + (k \div 3)) % 3)

TsCsv(rows) ==
    [m \in {RefKeys[k] : k \in 1..NumModels} |->
        [k \in 1..rows |-> Temp(PoolIndex(m), k, rows)]]

Swap(s, a, b) ==
    [k \in 1..Len(s) |-> IF k = a THEN s[b] ELSE IF k = b THEN s[a] ELSE s[k]]

\* column orders of ts.csv: the reference order with two columns exchanged
KeyOrders == {Swap(RefKeys, a, b) : a, b \in 1..NumModels}

EcsRow(m) ==
    [name |-> m,
     generation |-> IF PoolIndex(m) % 2 = 1 THEN "CMIP5" ELSE "CMIP6",
     ecs |-> 20 + PoolIndex(m)]

Rotate(s, r) == [k \in 1..Len(s) |-> s[((k - 1 + r) % Len(s)) + 1]]

\* ecs.csv: the models' rows in some order; `gone` > 0 renames that row (the
\* model has no row of its name), `extra` appends a row of another model
EcsCsv(r, gone, extra) ==
    LET rows == [k \in 1..NumModels |->
                    IF k = gone
                    THEN [EcsRow(RefKeys[k]) EXCEPT !.name = "unlisted"]
                    ELSE EcsRow(RefKeys[k])]
        rot == Rotate(rows, r)
    IN  IF extra THEN Append(rot, EcsRow(NamePool[Len(NamePool)])) ELSE rot

EcsTables ==
    {EcsCsv(r, gone, extra) :
        r \in {0, 1}, gone \in {0, 1, NumModels}, extra \in BOOLEAN}

----------------------------------------------------------------------------
(* Ordinary least squares, y ~ 1 + X, in exact arithmetic *)

RatAdd(a, b) ==
    IF IsNaN(a) \/ IsNaN(b) THEN NaN
    ELSE IF a.den = b.den THEN [num |-> a.num + b.num, den |-> a.den]
    ELSE [num |-> a.num * b.den + b.num * a.den, den |-> a.den * b.den]

\* the sums of the normal equations
Sums(y, X) ==
    LET n == Len(y)
    IN  [Sx |-> SumRange(X, 1, n),
         Sy |-> SumRange([k \in 1..n |-> y[k].num], 1, n),
         Sxx |-> SumRange([k \in 1..n |-> X[k] * X[k]], 1, n),
         Sxy |-> SumRange([k \in 1..n |-> X[k] * y[k].num], 1, n)]

\* sm.OLS(y, sm.add_constant(X)).fit() from the sums s: with
\*   D = n*Sxx - Sx^2 and N = n*Sxy - Sx*Sy
\* the slope params[1] is N/D, the intercept params[0] is (Sy*D - N*Sx)/(n*D)
\* and resid[k] = y[k] - params[0] - params[1] * X[k]
Fit(y, X, s) ==
    LET n == Len(y)
        D == n * s.Sxx - s.Sx * s.Sx
        N == n * s.Sxy - s.Sx * s.Sy
        A == s.Sy * D - N * s.Sx
    IN  [ok |-> TRUE,
         params |-> << [num |-> A, den |-> n * D], [num |-> N, den |-> D] >>,
         resid |-> [k \in 1..n |->
                      [num |-> y[k].num * n * D - A - N * X[k] * n,
                       den |-> n * D]]]

\* the fit raises when the lengths differ; a NaN in y makes every parameter
\* and residual NaN (the sums are taken once, over the arrays as values)
OLS(y, X) ==
    IF Len(y) # Len(X) THEN [ok |-> FALSE]
    ELSE IF \E k \in 1..Len(y) : IsNaN(y[k])
    THEN [ok |-> TRUE, params |-> <<NaN, NaN>>,
          resid |-> [k \in 1..Len(y) |-> NaN]]
    ELSE CHOOSE r \in {Fit(yy, XX, Sums(yy, XX)) : yy \in {y}, XX \in {X}} : TRUE

\* np.add(reg.resid, reg.params[0])
AddIntercept(reg) ==
    [k \in 1..Len(reg.resid) |-> RatAdd(reg.resid[k], reg.params[1])]

----------------------------------------------------------------------------
(* The metric functions *)

\* x[~np.isnan(x)]
Clean(x) == SelectSeq(x, LAMBDA v : ~IsNaN(v))

\* np.arange(0, len(x)-55): the window starts of compute_cox
CoxStarts(n) == 0..(n - CoxWindow - 1)

\* the block starts of compute_nijsse: i = 0; while i < len(x)-length: i += length
NijsseStarts(n, length) ==
    {b \in 0..(n - length - 1) : b % length = 0}

\* compute_cox(x): the mean of psi over the windows of the cleaned series
compute_cox(x) ==
    LET c == Clean(x)
    IN  [metric |-> "cox", series |-> c, windows |-> CoxStarts(Len(c))]

\* compute_nijsse(x): the deviation of the block changes of the cleaned series
compute_nijsse(x) ==
    LET c == Clean(x)
    IN  [metric |-> "nijsse", series |-> c,
         windows |-> NijsseStarts(Len(c), NijsseLength)]

----------------------------------------------------------------------------
(* The pipeline driver.  Run as a whole, the notebook stops at the first    *)
(* cell that raises: the cells after it are not run.                        *)

\* no call of a metric function is under way
FnIdle ==
    /\ fn_x = <<>>
    /\ fn_length = NijsseLength
    /\ fn_i = 0
    /\ psi_vals = <<>>
    /\ slopes = <<>>
    /\ fn_result = NaN
    /\ fn_pc = "idle"

\* no call of weighted_mean is under way
WmIdle ==
    /\ da = <<>>
    /\ weights = <<>>
    /\ wm = <<>>
    /\ wm_pc = "idle"

\* the notebook has not been run
DriverIdle ==
    /\ ts_rows = 0
    /\ df = <<>>
    /\ model_keys = <<>>
    /\ t = <<>>
    /\ i = 0
    /\ ecs_vals = <<>>
    /\ original_cox = <<>>
    /\ rv_cox = <<>>
    /\ original_nijsse = <<>>
    /\ rv_nijsse = <<>>
    /\ df_rv = <<>>
    /\ fit_log = <<>>
    /\ ec_data = [written |-> FALSE]
    /\ ts_rv = [written |-> FALSE]
    /\ pc = "idle"

\* df = pd.read_csv('data/ts.csv') ... df_rv = {}
DriverInit ==
    /\ ts_rows \in TsLens
    /\ df = TsCsv(ts_rows)
    /\ model_keys \in KeyOrders
    /\ t \in EcsTables
    /\ i = 0
    /\ ecs_vals = <<>>
    /\ original_cox = <<>>
    /\ rv_cox = <<>>
    /\ original_nijsse = <<>>
    /\ rv_nijsse = <<>>
    /\ df_rv = <<>>
    /\ fit_log = <<>>
    /\ ec_data = [written |-> FALSE]
    /\ ts_rv = [written |-> FALSE]
    /\ pc = "loop"

\* model_keys[i]
CurModel == model_keys[i + 1]

\* ts[:1001]
ts_past1000(ts) == Slice(ts, 0, PastLen)

\* a splice that starts the kept segment one point early
ts_historical_early(ts) == SliceFrom(ts, PastLen - 1)

\* ts[1001:]
ts_historical(ts) == SliceFrom(ts, PastLen)

\* a lookup by row position instead of by name
EcsLookupByPosition ==
    IF i + 1 > Len(t) THEN [ok |-> FALSE]
    ELSE [ok |-> TRUE, ecs |-> t[i + 1].ecs]

\* a lookup that falls back to a default when the model has no row
EcsLookupWithDefault ==
    LET rows == SelectSeq(t, LAMBDA r : r.name = CurModel)
    IN  IF rows = <<>> THEN [ok |-> TRUE, ecs |-> 0]
        ELSE [ok |-> TRUE, ecs |-> rows[1].ecs]

\* t[t['model name']==model_keys[i]]['ecs'].values[0]: the first row of the
\* model's name; an IndexError when there is none
EcsLookup ==
    LET rows == SelectSeq(t, LAMBDA r : r.name = CurModel)
    IN  IF rows = <<>> THEN [ok |-> FALSE]
        ELSE [ok |-> TRUE, ecs |-> rows[1].ecs]

\* t['generation'].values: the generation column, in the table's row order
GenerationColumn == [k \in 1..Len(t) |-> t[k].generation]

\* the exception leaves the cell: nothing of this iteration is appended
Raise(log) ==
    /\ pc' = "aborted"
    /\ fit_log' = log
    /\ UNCHANGED <<df, model_keys, t, i, ecs_vals, original_cox, rv_cox,
                   original_nijsse, rv_nijsse, df_rv, ec_data, ts_rv, ts_rows>>
    /\ UNCHANGED <<fn_vars, wm_vars>>

\* the appends of one iteration and the step of the for loop
Record(log, ecs, rv_arg, stored) ==
    /\ fit_log' = log
    /\ ecs_vals' = Append(ecs_vals, ecs)
    /\ original_cox' = Append(original_cox, compute_cox(df[CurModel]))
    /\ rv_cox' = Append(rv_cox, compute_cox(rv_arg))
    /\ original_nijsse' = Append(original_nijsse, compute_nijsse(df[CurModel]))
    /\ rv_nijsse' = Append(rv_nijsse, compute_nijsse(rv_arg))
    /\ df_rv' = [m \in (DOMAIN df_rv) \cup {CurModel} |->
                    IF m = CurModel THEN stored ELSE df_rv[m]]
    /\ i' = i + 1
    /\ pc' = IF i + 1 = Len(model_keys) THEN "write_ec" ELSE "loop"
    /\ UNCHANGED <<df, model_keys, t, ec_data, ts_rv, ts_rows>>
    /\ UNCHANGED <<fn_vars, wm_vars>>

\* a branch that regresses ts_past1000 against X and keeps ts_historical
Past1000Branch(fname, X) ==
    \E reg \in {OLS(ts_past1000(df[CurModel]), X)} :
        LET ts == df[CurModel]
            log == Append(fit_log, [model |-> CurModel, forcing |-> fname,
                                    from |-> 0, to |-> PastLen])
            look == EcsLookup
        IN  IF ~reg.ok THEN Raise(fit_log)
            ELSE IF ~look.ok THEN Raise(log)
            ELSE \E spliced \in {AddIntercept(reg) \o ts_historical(ts)} :
                    Record(log, look.ecs, spliced, spliced)

InLoop == pc = "loop" /\ i < Len(model_keys) /\ i < Len(forcings)

BranchHadCM3 ==
    /\ InLoop
    /\ CurModel = "HadCM3"
    /\ Past1000Branch("crowley_08", crowley_2008_forcing)

BranchGao ==
    /\ InLoop
    /\ CurModel # "HadCM3"
    /\ forcings[i + 1] = "gao"
    /\ Past1000Branch("gao", gao_2008_forcing)

\* regresses ts[151:] against crowley_2000_forcing and keeps ts[:151]
BranchCrowley00 ==
    /\ InLoop
    /\ CurModel # "HadCM3"
    /\ forcings[i + 1] = "crowley_00"
    /\ \E reg \in {OLS(SliceFrom(df[CurModel], CrowleyOffset),
                       crowley_2000_forcing)} :
        LET ts == df[CurModel]
            log == Append(fit_log, [model |-> CurModel, forcing |-> "crowley_00",
                                    from |-> CrowleyOffset, to |-> Len(ts)])
            look == EcsLookup
        IN  IF ~reg.ok THEN Raise(fit_log)
            ELSE IF ~look.ok THEN Raise(log)
            ELSE \E adj \in {AddIntercept(reg) \o <<>>} :
                    Record(log, look.ecs, adj, Slice(ts, 0, CrowleyOffset) \o adj)

BranchCrowley08 ==
    /\ InLoop
    /\ CurModel # "HadCM3"
    /\ forcings[i + 1] = "crowley_08"
    /\ Past1000Branch("crowley_08", crowley_2008_forcing)

BranchEvolv2k ==
    /\ InLoop
    /\ CurModel # "HadCM3"
    /\ forcings[i + 1] = "evolv2k"
    /\ Past1000Branch("evolv2k", evolv2k_forcing)

\* df = {...}; pd.DataFrame(df).to_csv('data/ec_data.csv'): the columns are
\* paired by position, and columns of different lengths raise
WriteEcData ==
    /\ pc = "write_ec"
    /\ LET n == Len(model_keys)
           gen == GenerationColumn
           table == [model |-> model_keys, generation |-> gen,
                     cox |-> original_cox, rv_cox |-> rv_cox,
                     nijsse |-> original_nijsse, rv_nijsse |-> rv_nijsse,
                     ecs |-> ecs_vals]
       IN  /\ df' = table
           /\ IF Len(gen) # n
              THEN /\ pc' = "aborted"
                   /\ UNCHANGED ec_data
              ELSE /\ pc' = "write_ts"
                   /\ ec_data' =
                        [written |-> TRUE,
                         rows |-> [k \in 1..n |->
                            [model |-> model_keys[k],
                             generation |-> gen[k],
                             cox |-> original_cox[k],
                             rv_cox |-> rv_cox[k],
                             nijsse |-> original_nijsse[k],
                             rv_nijsse |-> rv_nijsse[k],
                             ecs |-> ecs_vals[k]]]]
    /\ UNCHANGED <<model_keys, t, i, ecs_vals, original_cox, rv_cox,
                   original_nijsse, rv_nijsse, df_rv, fit_log, ts_rv, ts_rows>>
    /\ UNCHANGED <<fn_vars, wm_vars>>

\* pd.DataFrame(df_rv).to_csv('data/ts_rv.csv')
WriteTsRv ==
    /\ pc = "write_ts"
    /\ ts_rv' = [written |-> TRUE, columns |-> df_rv]
    /\ pc' = "done"
    /\ UNCHANGED <<df, model_keys, t, i, ecs_vals, original_cox, rv_cox,
                   original_nijsse, rv_nijsse, df_rv, fit_log, ec_data, ts_rows>>
    /\ UNCHANGED <<fn_vars, wm_vars>>

Next ==
    \/ BranchHadCM3
    \/ BranchGao
    \/ BranchCrowley00
    \/ BranchCrowley08
    \/ BranchEvolv2k
    \/ WriteEcData
    \/ WriteTsRv

Init == DriverInit /\ FnIdle /\ WmIdle

Spec == Init /\ [][Next]_vars

----------------------------------------------------------------------------
(* Properties of the pipeline driver *)

\* the rows of ecs.csv of model m, whatever their order
RowsNamed(m) == {t[k] : k \in {j \in 1..Len(t) : t[j].name = m}}

\* numeric equality of two values; an empty value equals only an empty value
SameValue(a, b) ==
    IF IsNaN(a) \/ IsNaN(b) THEN IsNaN(a) /\ IsNaN(b)
    ELSE a.num * b.den = b.num * a.den

\* the series of model m as read from ts.csv
Original(m) == TsCsv(ts_rows)[m]

\* C1: the ecs recorded for a model, in ecs_vals and in its row of
\* ec_data.csv, is the ecs of the row of ecs.csv that bears the model's name,
\* whatever the order of the rows of ecs.csv.
C1_EcsPairedByName ==
    /\ \A k \in 1..Len(ecs_vals) :
          \E r \in RowsNamed(model_keys[k]) : ecs_vals[k] = r.ecs
    /\ ec_data.written =>
          \A k \in 1..Len(ec_data.rows) :
              \E r \in RowsNamed(ec_data.rows[k].model) :
                  ec_data.rows[k].ecs = r.ecs

\* ec_data.csv was written from an ecs.csv whose rows are not in the order of
\* the model columns
C1_Witness ==
    /\ ec_data.written
    /\ \E k \in 1..Len(model_keys) : t[k].name # model_keys[k]

\* C2: the generation recorded in a model's row of ec_data.csv is the
\* generation of the row of ecs.csv that bears the model's name.
C2_GenerationPairedByName ==
    ec_data.written =>
        \A k \in 1..Len(ec_data.rows) :
            \E r \in RowsNamed(ec_data.rows[k].model) :
                ec_data.rows[k].generation = r.generation

\* the models of the ensemble that have no row of their name in ecs.csv
Unlisted == {k \in 1..Len(model_keys) : RowsNamed(model_keys[k]) = {}}

\* C3: when a model of the ensemble has no row of its name in ecs.csv, the
\* loop never gets past the first such model, the run ends there aborted, and
\* neither ec_data.csv nor ts_rv.csv is written.
C3_UnlistedModelAborts ==
    Unlisted # {} =>
        /\ \A k \in Unlisted : i < k
        /\ pc \in {"loop", "aborted"}
        /\ ~ec_data.written
        /\ ~ts_rv.written

\* the run aborted on the lookup of an unlisted model, after the regression of
\* that model and after earlier models were processed
C3_Witness ==
    /\ pc = "aborted"
    /\ i > 0
    /\ i + 1 \in Unlisted
    /\ Len(fit_log) = i + 1
    /\ Len(ecs_vals) = i

\* C6: the adjusted metrics of every model are computed on the adjusted
\* series stored for it in df_rv.
C6_AdjustedMetricsOnStoredSeries ==
    \A k \in 1..Len(rv_cox) :
        /\ rv_cox[k].series = Clean(df_rv[model_keys[k]])
        /\ rv_nijsse[k].series = Clean(df_rv[model_keys[k]])

\* the regression recorded for model m
FitOf(m) == CHOOSE e \in {fit_log[k] : k \in 1..Len(fit_log)} : e.model = m

\* C7: the adjusted series stored for a model has the length of the model's
\* series and equals it outside the regressed window: from index 1001 on
\* under the default policy, before index 151 under the crowley_00 policy.
C7_SpliceKeepsTheRest ==
    \A m \in DOMAIN df_rv :
        /\ Len(df_rv[m]) = Len(Original(m))
        /\ FitOf(m).forcing # "crowley_00" =>
              \A k \in (PastLen + 1)..Len(df_rv[m]) :
                  SameValue(df_rv[m][k], Original(m)[k])
        /\ FitOf(m).forcing = "crowley_00" =>
              \A k \in 1..CrowleyOffset :
                  SameValue(df_rv[m][k], Original(m)[k])

\* the run finished, both policies were applied, and each regression changed
\* a point of its window
C7_Witness ==
    /\ pc = "done"
    /\ \E m \in DOMAIN df_rv :
          /\ FitOf(m).forcing = "crowley_00"
          /\ \E k \in (CrowleyOffset + 1)..Len(df_rv[m]) :
                ~SameValue(df_rv[m][k], Original(m)[k])
    /\ \E m \in DOMAIN df_rv :
          /\ FitOf(m).forcing # "crowley_00"
          /\ \E k \in 1..PastLen :
                ~SameValue(df_rv[m][k], Original(m)[k])

\* the forcing variant assigned to a model's name: the entry of the forcings
\* list for the model's column in the reference order of ts.csv
AssignedForcing(m) ==
    forcings[CHOOSE k \in 1..Len(RefKeys) : RefKeys[k] = m]

\* C10: the forcing a model is regressed against depends on its name alone:
\* HadCM3 on crowley_08 over the first 1001 points, every other model on the
\* variant assigned to its name, whatever the order of the model columns.
C10_ForcingByName ==
    \A k \in 1..Len(fit_log) :
        IF fit_log[k].model = "HadCM3"
        THEN /\ fit_log[k].forcing = "crowley_08"
             /\ fit_log[k].from = 0
             /\ fit_log[k].to = PastLen
        ELSE fit_log[k].forcing = AssignedForcing(fit_log[k].model)

----------------------------------------------------------------------------
(* compute_cox and compute_nijsse, one call, step by step *)

\* an input series of len points, empty (NaN) at the positions in gaps
Series(len, gaps) ==
    [k \in 1..len |-> IF k \in gaps THEN NaN ELSE Num((k * 7) % 5)]

\* where an input series may be empty: nowhere, at its start, at its end
Gaps(len) == {{}, {1}, {len}, {2, len}}

SeriesOfLengths(lens) ==
    UNION {{Series(len, g) : g \in Gaps(len)} : len \in lens}

CoxInputs == SeriesOfLengths((CoxWindow - 2)..(CoxWindow + MaxExtra))

NijsseLengths == {3, NijsseLength}

NijsseInputs == SeriesOfLengths(0..(3 * NijsseLength + MaxExtra))

FnInit(name, inputs, lengths) ==
    /\ fn_x \in inputs
    /\ fn_length \in lengths
    /\ fn_i = 0
    /\ psi_vals = <<>>
    /\ slopes = <<>>
    /\ fn_result = NaN
    /\ fn_pc = name

\* x = x[~np.isnan(x)]; psi_vals = []
CoxClean ==
    /\ fn_pc = "compute_cox"
    /\ fn_x' = Clean(fn_x)
    /\ psi_vals' = <<>>
    /\ fn_i' = 0
    /\ fn_pc' = "cox_loop"
    /\ UNCHANGED <<fn_length, slopes, fn_result>>
    /\ UNCHANGED <<driver_vars, wm_vars>>

\* one pass of `for i in np.arange(0, len(x)-55)`: psi of the detrended window
\* x[i:i+55].  psi is sigma / sqrt(|log(r1)|), which is NaN when the lag-1
\* autocorrelation r1 of the window is negative (or undefined)
CoxWindowStep ==
    /\ fn_pc = "cox_loop"
    /\ fn_i \in CoxStarts(Len(fn_x))
    /\ \E finite \in BOOLEAN :
          psi_vals' = Append(psi_vals,
                             [start |-> fn_i,
                              y |-> Slice(fn_x, fn_i, fn_i + CoxWindow),
                              finite |-> finite])
    /\ fn_i' = fn_i + 1
    /\ UNCHANGED <<fn_x, fn_length, slopes, fn_result, fn_pc>>
    /\ UNCHANGED <<driver_vars, wm_vars>>

\* return np.nanmean(psi_vals): the mean of the finite psi, NaN without any
CoxReturn ==
    /\ fn_pc = "cox_loop"
    /\ fn_i \notin CoxStarts(Len(fn_x))
    /\ fn_result' =
          LET kept == SelectSeq(psi_vals, LAMBDA p : p.finite)
          IN  IF kept = <<>> THEN NaN ELSE [mean_of |-> kept]
    /\ fn_pc' = "done"
    /\ UNCHANGED <<fn_x, fn_length, fn_i, psi_vals, slopes>>
    /\ UNCHANGED <<driver_vars, wm_vars>>

CoxNext ==
    \/ CoxClean
    \/ CoxWindowStep
    \/ CoxReturn

CoxInit ==
    /\ FnInit("compute_cox", CoxInputs, {NijsseLength})
    /\ DriverIdle
    /\ WmIdle

SpecCox == CoxInit /\ [][CoxNext]_vars

\* length * slope of linregress(np.arange(0, length), block): with
\*   Sk = sum k, Skk = sum k^2, Sy = sum y, Sky = sum k*y  (k = 0..length-1)
\* the slope is (length*Sky - Sk*Sy) / (length*Skk - Sk^2)
BlockChange(block) ==
    LET n == Len(block)
        Sk == SumRange([k \in 1..n |-> k - 1], 1, n)
        Skk == SumRange([k \in 1..n |-> (k - 1) * (k - 1)], 1, n)
        Sy == SumRange([k \in 1..n |-> block[k].num], 1, n)
        Sky == SumRange([k \in 1..n |-> (k - 1) * block[k].num], 1, n)
    IN  [num |-> n * (n * Sky - Sk * Sy), den |-> n * Skk - Sk * Sk]

\* x = np.array(x); mask = ~np.isnan(x); x = x[mask]; slopes = []; i = 0
NijsseClean ==
    /\ fn_pc = "compute_nijsse"
    /\ fn_x' = Clean(fn_x)
    /\ slopes' = <<>>
    /\ fn_i' = 0
    /\ fn_pc' = "nijsse_loop"
    /\ UNCHANGED <<fn_length, psi_vals, fn_result>>
    /\ UNCHANGED <<driver_vars, wm_vars>>

\* one pass of `while i < len(x)-length`
NijsseBlockStep ==
    /\ fn_pc = "nijsse_loop"
    /\ fn_i \in NijsseStarts(Len(fn_x), fn_length)
    /\ slopes' = Append(slopes,
                        BlockChange(Slice(fn_x, fn_i, fn_i + fn_length)))
    /\ fn_i' = fn_i + fn_length
    /\ UNCHANGED <<fn_x, fn_length, psi_vals, fn_result, fn_pc>>
    /\ UNCHANGED <<driver_vars, wm_vars>>

\* return np.nanstd(slopes): NaN when there is no slope
NijsseReturn ==
    /\ fn_pc = "nijsse_loop"
    /\ fn_i \notin NijsseStarts(Len(fn_x), fn_length)
    /\ fn_result' = IF slopes = <<>> THEN NaN ELSE [std_of |-> slopes]
    /\ fn_pc' = "done"
    /\ UNCHANGED <<fn_x, fn_length, fn_i, psi_vals, slopes>>
    /\ UNCHANGED <<driver_vars, wm_vars>>

NijsseNext ==
    \/ NijsseClean
    \/ NijsseBlockStep
    \/ NijsseReturn

NijsseInit ==
    /\ FnInit("compute_nijsse", NijsseInputs, NijsseLengths)
    /\ DriverIdle
    /\ WmIdle

SpecNijsse == NijsseInit /\ [][NijsseNext]_vars

\* C4: compute_cox evaluates one window for every start at which 55 points
\* remain: on a cleaned series of n >= 55 points, the windows start at
\* 0 .. n-55 (n-54 windows), the last one ending at the last point.
C4_EveryFullWindow ==
    (fn_pc = "done" /\ Len(fn_x) >= CoxWindow) =>
        /\ {psi_vals[k].start : k \in 1..Len(psi_vals)}
              = 0..(Len(fn_x) - CoxWindow)
        /\ Len(psi_vals) = Len(fn_x) - CoxWindow + 1

\* C5: compute_nijsse records one block change for every full block of
\* `length` points of the cleaned series: floor(n / length) blocks starting
\* at 0, length, 2*length, ...
C5_EveryFullBlock ==
    fn_pc = "done" =>
        /\ Len(slopes) = Len(fn_x) \div fn_length
        /\ \A b \in 1..Len(slopes) :
              slopes[b] = BlockChange(Slice(fn_x, (b - 1) * fn_length,
                                            b * fn_length))

----------------------------------------------------------------------------
(* weighted_mean, one call, step by step.  An array has named axes (dims, *)
(* in storage order) and one value per cell; a cell gives each axis its    *)
(* index.                                                                  *)

AxisSet(dims) == {dims[k] : k \in 1..Len(dims)}

Cells(dims) == [AxisSet(dims) -> 1..GridSize]

\* the cell of the axes `dims` that cell c lies in
Restrict(c, dims) == [a \in AxisSet(dims) |-> c[a]]

\* the axes of dims that are not in gone, in order
Without(dims, gone) == SelectSeq(dims, LAMBDA a : a \notin gone)

\* latitudes of the grid rows, in degrees, and twice their cosine
Latitude(k) == IF k % 3 = 1 THEN -60 ELSE IF k % 3 = 2 THEN 0 ELSE 60

Cos2(deg) == IF deg = 0 THEN 2 ELSE 1

\* the axis orders of the datasets: a zonal-mean field, the four supported
\* namings of a pair of spatial axes, and a naming that is not supported
DimOrders ==
    { <<"time", "lat">>, <<"time", "lat", "lon">>, <<"time", "i", "j">>,
      <<"time", "nlat", "nlon">>, <<"time", "x", "y">>,
      <<"time", "rlat", "rlon">> }

\* the lat coordinate: 1-D along one axis, or 2-D over the spatial axes (a
\* curvilinear grid; the name lat is then no axis of the field)
LatCoords(dims) ==
    { [shape |-> 1, deg |-> [k \in 1..GridSize |-> Latitude(k)]] }
    \cup
    IF "lat" \in AxisSet(dims) THEN {}
    ELSE { [shape |-> 2, dims |-> Without(dims, {"time"}),
            deg |-> [c \in Cells(Without(dims, {"time"})) |->
                        Latitude(c[dims[2]] + c[dims[3]] - 1)]] }

\* a time step of a field: the value v everywhere but in the cells that are
\* missing (none, the first cell, all cells), or values that differ by cell
StepKinds ==
    { [v |-> v, hole |-> h] : v \in 0..MaxValue, h \in {"none", "first", "all"} }
    \cup { [v |-> 0, hole |-> "ramp"] }

CellValue(kind, c, dims) ==
    LET space == Without(dims, {"time"})
        first == \A k \in 1..Len(space) : c[space[k]] = 1
    IN  IF kind.hole = "all" THEN NaN
        ELSE IF kind.hole = "first" /\ first THEN NaN
        ELSE IF kind.hole = "ramp" THEN Num(c[space[1]] + c[space[Len(space)]])
        ELSE Num(kind.v)

Fields(dims) ==
    { [c \in Cells(dims) |-> CellValue(steps[c["time"]], c, dims)] :
        steps \in [1..GridSize -> StepKinds] }

WmInit ==
    /\ \E dims \in DimOrders :
          \E data \in Fields(dims), lat \in LatCoords(dims) :
              da = [dims |-> dims, data |-> data, lat |-> lat]
    /\ weights = <<>>
    /\ wm = <<>>
    /\ wm_pc = "weighted_mean"
    /\ DriverIdle
    /\ FnIdle

\* if len(da.lat.shape)==2: weights = np.cos(np.deg2rad(da.lat))
\* elif len(da.lat.shape)==1:
\*     weights = xr.ones_like(da) * (np.cos(np.deg2rad(da.lat))).values
\* the values of a 1-D lat are a bare array, which is laid along the last axis
WmWeights ==
    /\ wm_pc = "weighted_mean"
    /\ weights' =
          IF da.lat.shape = 2
          THEN [dims |-> da.lat.dims,
                data |-> [c \in Cells(da.lat.dims) |-> Num(Cos2(da.lat.deg[c]))]]
          ELSE [dims |-> da.dims,
                data |-> [c \in Cells(da.dims) |->
                            Num(Cos2(da.lat.deg[c[da.dims[Len(da.dims)]]]))]]
    /\ wm_pc' = "mask"
    /\ UNCHANGED <<da, wm>>
    /\ UNCHANGED <<driver_vars, fn_vars>>

\* w * v / v: NaN where v is NaN, and where v is 0 (0/0)
TimesRatio(w, v) ==
    IF IsNaN(w) \/ IsNaN(v) \/ v.num = 0 THEN NaN ELSE w

\* weights = weights*da/da, the arrays aligned by axis name
WmMask ==
    /\ wm_pc = "mask"
    /\ weights' =
          [dims |-> da.dims,
           data |-> [c \in Cells(da.dims) |->
                       TimesRatio(weights.data[Restrict(c, weights.dims)],
                                  da.data[c])]]
    /\ wm_pc' = "reduce"
    /\ UNCHANGED <<da, wm>>
    /\ UNCHANGED <<driver_vars, fn_vars>>

\* the axes named in the branch of weighted_mean that the field's axes select
ReducedAxes(dims) ==
    IF "lat" \in AxisSet(dims) THEN {"lat"}
    ELSE IF "i" \in AxisSet(dims) THEN {"i", "j"}
    ELSE IF "nlat" \in AxisSet(dims) THEN {"nlat", "nlon"}
    ELSE IF "x" \in AxisSet(dims) THEN {"x", "y"}
    ELSE {}

RECURSIVE SumOver(_, _)
SumOver(f, cells) ==
    IF cells = {} THEN 0
    ELSE LET c == CHOOSE e \in cells : TRUE
         IN  f[c] + SumOver(f, cells \ {c})

\* .sum(dim=axes, skipna=True) of an array of integers-or-NaN: NaN counts 0
SumSkipNa(arr, axes) ==
    LET rest == Without(arr.dims, axes)
    IN  [dims |-> rest,
         data |-> [r \in Cells(rest) |->
                     SumOver([c \in Cells(arr.dims) |->
                                 IF IsNaN(arr.data[c]) THEN 0
                                 ELSE arr.data[c].num],
                             {c \in Cells(arr.dims) : Restrict(c, rest) = r})]]

\* a / b of two sums: 0/0 is NaN
Ratio(a, b) == IF b = 0 THEN NaN ELSE [num |-> a, den |-> b]

\* da*weights, cell by cell
Product(a, w) ==
    [dims |-> a.dims,
     data |-> [c \in Cells(a.dims) |->
                 IF IsNaN(a.data[c]) \/ IsNaN(w.data[c]) THEN NaN
                 ELSE Num(a.data[c].num * w.data[c].num)]]

\* wm = (da*weights).sum(dim=..., skipna=True) / weights.sum(dim=..., skipna=True)
\* in the branch of the field's axes; no branch leaves wm unbound and the
\* return raises, and so does a sum over an axis the field does not have
WmReduce ==
    /\ wm_pc = "reduce"
    /\ LET axes == ReducedAxes(da.dims)
           top == SumSkipNa(Product(da, weights), axes)
           bottom == SumSkipNa(weights, axes)
       IN  IF axes = {} \/ ~(axes \subseteq AxisSet(da.dims))
           THEN /\ wm_pc' = "error"
                /\ UNCHANGED wm
           ELSE /\ wm_pc' = "done"
                /\ wm' = [dims |-> top.dims,
                          data |-> [r \in Cells(top.dims) |->
                                      Ratio(top.data[r], bottom.data[r])]]
    /\ UNCHANGED <<da, weights>>
    /\ UNCHANGED <<driver_vars, fn_vars>>

WmNext ==
    \/ WmWeights
    \/ WmMask
    \/ WmReduce

SpecWm == WmInit /\ [][WmNext]_vars

\* the cells of the field that the value r of the result is taken over
Group(r) == {c \in Cells(da.dims) : Restrict(c, wm.dims) = r}

Present(cells) == {c \in cells : ~IsNaN(da.data[c])}

StepCells(tt) == {c \in Cells(da.dims) : c["time"] = tt}

\* C8: weighted_mean leaves out exactly the missing cells: at a time step
\* whose non-missing cells all hold the same value v (v = 0 included) the
\* mean is v whatever the weights, and at a time step whose cells are all
\* missing it is NaN; a field with a supported axis naming raises no error.
C8_MeanOfUniformStep ==
    /\ wm_pc = "error" => ReducedAxes(da.dims) = {}
    /\ wm_pc = "done" =>
          \A r \in Cells(wm.dims) :
              /\ Present(StepCells(r["time"])) = {} => IsNaN(wm.data[r])
              /\ \A v \in 0..MaxValue :
                    ( /\ Present(Group(r)) # {}
                      /\ \A c \in Present(StepCells(r["time"])) :
                            da.data[c] = Num(v) )
                    => SameValue(wm.data[r], Num(v))

\* C9: for a field over time and one of the four pairs of spatial axes,
\* weighted_mean reduces over both axes of the pair: the result has the time
\* axis alone, one value per time step.
C9_ReducesBothAxes ==
    (wm_pc = "done" /\ Len(da.dims) = 3) =>
        /\ wm.dims = <<"time">>
        /\ Cardinality(DOMAIN wm.data) = GridSize

====
